---- MODULE Spec2Model ----
(***************************************************************************)
(* The CPU softmax operators of src/operator/nn/softmax.cc: the operator   *)
(* registrations (softmax, _backward_softmax, log_softmax,                 *)
(* _backward_log_softmax), the storage-type inference of softmax           *)
(* (SoftmaxStorageType) and the backend dispatch of softmax forward         *)
(* (SoftmaxComputeExCPU), as a state machine that follows one call at a    *)
(* time from its invocation to its return.                                 *)
(***************************************************************************)
EXTENDS Integers, Sequences, FiniteSets, TLC

VARIABLES
  use_mkldnn,     \* MXNET_USE_MKLDNN == 1 in this build
  mkldnn_debug,   \* the build runs the MKLDNN_OPCHECK reference comparison
  attrs,          \* the node: [op, dict_axis]; dict_axis is <<>> or <<a>>
  param,          \* attrs.parsed, the SoftmaxParam: [axis]
  input,          \* inputs[0] of the forward op: [layout, supported, val]
  out,            \* outputs[0] of the forward op (a tensor value)
  igrad,          \* outputs[0] of the backward op (a tensor value)
  fwd,            \* the last completed forward call: [y, path]
  call,           \* the call in progress: [op, nin, nout, is_train, dev_mask]
  pc,             \* position of the call in progress
  dispatch_mode,  \* *dispatch_mode as set by storage-type inference
  path,           \* which kernel the call was routed to
  queried,        \* operands of the dispatch condition evaluated in this call
  writers,        \* the paths that wrote the call's result
  in_buf,         \* in_bufs of FallBackCompute: the converted copy so far
  kernel_read,    \* what the generic kernel read on the fallback path
  ref_ran,        \* the OPCHECK reference kernel ran on private copies
  err,            \* the error the call ended with
  backend_failed, \* the accelerated backend raised a failure in this call
  out_at_call,    \* content of the output view when the call started
  bwd_in,         \* inputs of the backward call in progress
  memo            \* a remembered dispatch decision: [key, dec, fresh]

vars == <<use_mkldnn, mkldnn_debug, attrs, param, input, out, igrad, fwd, call,
          pc, dispatch_mode, path, queried, writers, in_buf, kernel_read,
          ref_ran, err, backend_failed, out_at_call, bwd_in, memo>>

(***************************************************************************)
(* Bounds.                                                                 *)
(***************************************************************************)
NDim == 1       \* rank of the arrays; an axis lies in -NDim .. NDim-1
NumElems == 2   \* elements of an array
NumVals == 2    \* distinct input arrays' contents
MaxArity == 2   \* a call supplies 0 .. MaxArity inputs and outputs

AxisValues == (0 - NDim) .. (NDim - 1)
DictAxes == {<<>>} \cup {<<a>> : a \in AxisValues}
FwdOps == {"softmax", "log_softmax"}
BwdOps == {"_backward_softmax", "_backward_log_softmax"}
DevMasks == {"cpu", "gpu"}
Layouts == {"default", "mkldnn"}

(***************************************************************************)
(* Tensor values.  The arithmetic of the kernels lives outside this file;  *)
(* a value is the term that names what was computed from what.             *)
(***************************************************************************)
NoVal == [kernel |-> "none", of |-> "none", x |-> <<>>, axis |-> 0]
OGrad == [kernel |-> "ograd", of |-> "none", x |-> <<>>, axis |-> 0]
Data(seed) == [kernel |-> "data", of |-> "none",
               x |-> [i \in 1..NumElems |-> seed], axis |-> 0]

NoFwd == [y |-> NoVal, path |-> "none"]
NoCall == [op |-> "none", nin |-> 0, nout |-> 0, is_train |-> FALSE,
           dev_mask |-> "cpu"]
NoRead == [src |-> "none", len |-> 0, layout |-> "none"]
NoMemo == [key |-> <<>>, dec |-> "none", fresh |-> FALSE]

(***************************************************************************)
(* Operator registrations.                                                 *)
(***************************************************************************)
\* What a registration that keeps the forward input instead would declare.
Registry_GradUseIn(op) ==
  CASE op = "softmax" ->
         [num_inputs |-> 1, num_outputs |-> 1, fcompute |-> "softmax_fwd",
          fcompute_ex |-> use_mkldnn, infer_storage |-> TRUE,
          grad_use |-> "in", grad_op |-> "_backward_softmax"]
    [] op = "_backward_softmax" ->
         [num_inputs |-> 2, num_outputs |-> 1, fcompute |-> "softmax_bwd",
          fcompute_ex |-> FALSE, infer_storage |-> FALSE,
          grad_use |-> "none", grad_op |-> "none"]
    [] op = "log_softmax" ->
         [num_inputs |-> 1, num_outputs |-> 1, fcompute |-> "log_softmax_fwd",
          fcompute_ex |-> FALSE, infer_storage |-> FALSE,
          grad_use |-> "in", grad_op |-> "_backward_log_softmax"]
    [] op = "_backward_log_softmax" ->
         [num_inputs |-> 2, num_outputs |-> 1, fcompute |-> "log_softmax_bwd",
          fcompute_ex |-> FALSE, infer_storage |-> FALSE,
          grad_use |-> "none", grad_op |-> "none"]

\* What registering the softmax dispatch for log_softmax too would declare.
Registry_LogSoftmaxEx(op) ==
  CASE op = "softmax" ->
         [num_inputs |-> 1, num_outputs |-> 1, fcompute |-> "softmax_fwd",
          fcompute_ex |-> use_mkldnn, infer_storage |-> TRUE,
          grad_use |-> "out", grad_op |-> "_backward_softmax"]
    [] op = "_backward_softmax" ->
         [num_inputs |-> 2, num_outputs |-> 1, fcompute |-> "softmax_bwd",
          fcompute_ex |-> FALSE, infer_storage |-> FALSE,
          grad_use |-> "none", grad_op |-> "none"]
    [] op = "log_softmax" ->
         [num_inputs |-> 1, num_outputs |-> 1, fcompute |-> "log_softmax_fwd",
          fcompute_ex |-> use_mkldnn, infer_storage |-> TRUE,
          grad_use |-> "out", grad_op |-> "_backward_log_softmax"]
    [] op = "_backward_log_softmax" ->
         [num_inputs |-> 2, num_outputs |-> 1, fcompute |-> "log_softmax_bwd",
          fcompute_ex |-> FALSE, infer_storage |-> FALSE,
          grad_use |-> "none", grad_op |-> "none"]

\* The four registrations: arity (UNARY / BINARY), FCompute<cpu>,
\* FComputeEx<cpu> (softmax only, MKLDNN builds only), FInferStorageType
\* (softmax only) and FGradient (ElemwiseGradUseOut with the backward op).
Registry(op) ==
  CASE op = "softmax" ->
         [num_inputs |-> 1, num_outputs |-> 1, fcompute |-> "softmax_fwd",
          fcompute_ex |-> use_mkldnn, infer_storage |-> TRUE,
          grad_use |-> "out", grad_op |-> "_backward_softmax"]
    [] op = "_backward_softmax" ->
         [num_inputs |-> 2, num_outputs |-> 1, fcompute |-> "softmax_bwd",
          fcompute_ex |-> FALSE, infer_storage |-> FALSE,
          grad_use |-> "none", grad_op |-> "none"]
    [] op = "log_softmax" ->
         [num_inputs |-> 1, num_outputs |-> 1, fcompute |-> "log_softmax_fwd",
          fcompute_ex |-> FALSE, infer_storage |-> FALSE,
          grad_use |-> "out", grad_op |-> "_backward_log_softmax"]
    [] op = "_backward_log_softmax" ->
         [num_inputs |-> 2, num_outputs |-> 1, fcompute |-> "log_softmax_bwd",
          fcompute_ex |-> FALSE, infer_storage |-> FALSE,
          grad_use |-> "none", grad_op |-> "none"]

(***************************************************************************)
(* Configuration.                                                          *)
(***************************************************************************)
\* The axis of a SoftmaxParam whose dictionary names none: the last dimension.
DefaultAxis == -1

\* A parser that folds a negative axis into 0 .. NDim-1 when the node is made.
ParamParser_Normalizing(dict_axis) ==
  LET a == IF dict_axis = <<>> THEN DefaultAxis ELSE dict_axis[1]
  IN  [axis |-> IF a < 0 THEN a + NDim ELSE a]

\* ParamParser<SoftmaxParam>: attrs.parsed holds the fields as the dictionary
\* gives them, a missing field taking its default.
ParamParser(dict_axis) ==
  [axis |-> IF dict_axis = <<>> THEN DefaultAxis ELSE dict_axis[1]]

\* The axis the generic kernel reduces along: it folds a negative axis itself.
CheckAxis(axis) == IF axis < 0 THEN axis + NDim ELSE axis

\* SoftmaxCompute<cpu, OP>: the generic forward kernel applied to a blob.
SoftmaxCompute(kernel, blob, axis) ==
  [kernel |-> kernel, of |-> blob.kernel, x |-> blob.x, axis |-> CheckAxis(axis)]

\* SoftmaxGradCompute<cpu, OP1, OP2>: the generic backward kernel, applied to
\* the output gradient and the saved tensor.
SoftmaxGradCompute(kernel, ins, axis) ==
  [kernel |-> kernel, of |-> ins[2].kernel, x |-> ins[2].x,
   axis |-> CheckAxis(axis)]

\* The inputs the gradient node is built with.
GradInputs(use, ograd, x, y) ==
  CASE use = "out" -> <<ograd, y>>
    [] use = "in"  -> <<ograd, x>>

(***************************************************************************)
(* The dispatch condition of SoftmaxComputeExCPU:                          *)
(*   SupportMKLDNN(inputs[0]) && !ctx.is_train && param.axis >= 0          *)
(* evaluated left to right, stopping at the first false operand.           *)
(***************************************************************************)
\* The operands in an order that asks the backend last.
CondOperands_QueryLast == <<"not_is_train", "axis_nonneg", "SupportMKLDNN">>

CondOperands == <<"SupportMKLDNN", "not_is_train", "axis_nonneg">>

\* An axis test that also refuses axis 0.
OperandValue_AxisPositive(name, in, is_train, axis) ==
  CASE name = "SupportMKLDNN" -> in.supported
    [] name = "not_is_train"  -> ~is_train
    [] name = "axis_nonneg"   -> axis > 0

\* A condition that does not look at the execution mode.
OperandValue_IgnoreTrain(name, in, is_train, axis) ==
  CASE name = "SupportMKLDNN" -> in.supported
    [] name = "not_is_train"  -> TRUE
    [] name = "axis_nonneg"   -> axis >= 0

\* A capability answer that stays negative once a call has fallen back.
OperandValue_StickyFallback(name, in, is_train, axis) ==
  CASE name = "SupportMKLDNN" -> in.supported /\ fwd.path # "Generic"
    [] name = "not_is_train"  -> ~is_train
    [] name = "axis_nonneg"   -> axis >= 0

OperandValue(name, in, is_train, axis) ==
  CASE name = "SupportMKLDNN" -> in.supported
    [] name = "not_is_train"  -> ~is_train
    [] name = "axis_nonneg"   -> axis >= 0

RECURSIVE EvalAnd(_, _, _, _)
EvalAnd(ops, in, is_train, axis) ==
  IF ops = <<>> THEN [value |-> TRUE, evaluated |-> {}]
  ELSE IF ~OperandValue(Head(ops), in, is_train, axis)
       THEN [value |-> FALSE, evaluated |-> {Head(ops)}]
       ELSE LET r == EvalAnd(Tail(ops), in, is_train, axis)
            IN  [value |-> r.value, evaluated |-> r.evaluated \cup {Head(ops)}]

DecisionKey == <<param.axis, call.is_train, input.supported>>

(***************************************************************************)
(* Initial state: a node has been created and arrays are bound.            *)
(***************************************************************************)
Init ==
  /\ use_mkldnn \in BOOLEAN
  /\ mkldnn_debug \in BOOLEAN
  /\ (mkldnn_debug => use_mkldnn)
  /\ attrs \in [op : FwdOps, dict_axis : DictAxes]
  /\ param = ParamParser(attrs.dict_axis)
  /\ input \in [layout : Layouts, supported : BOOLEAN,
                val : {Data(s) : s \in 1..NumVals}]
  /\ (input.layout = "mkldnn" => use_mkldnn)
  /\ out = NoVal
  /\ igrad = NoVal
  /\ fwd = NoFwd
  /\ call = NoCall
  /\ pc = "idle"
  /\ dispatch_mode = "kUndefined"
  /\ path = "none"
  /\ queried = {}
  /\ writers = {}
  /\ in_buf = <<>>
  /\ kernel_read = NoRead
  /\ ref_ran = FALSE
  /\ err = "none"
  /\ backend_failed = FALSE
  /\ out_at_call = NoVal
  /\ bwd_in = <<>>
  /\ memo = NoMemo

build == <<use_mkldnn, mkldnn_debug>>
call_locals == <<dispatch_mode, path, queried, writers, in_buf, kernel_read,
                 ref_ran, err, backend_failed>>

(***************************************************************************)
(* The graph system around the operators.                                  *)
(***************************************************************************)
\* A new operator node is created: its dictionary is parsed once, and the
\* graph it belongs to gets fresh output arrays.
Construct ==
  /\ pc = "idle"
  /\ \E op \in FwdOps, d \in DictAxes :
       /\ attrs' = [op |-> op, dict_axis |-> d]
       /\ param' = ParamParser(d)
  /\ out' = NoVal
  /\ igrad' = NoVal
  /\ fwd' = NoFwd
  /\ out_at_call' = NoVal
  /\ UNCHANGED <<build, input, call, pc, call_locals, bwd_in, memo>>

\* Another input array is bound to the node, with fresh output arrays.
BindInput ==
  /\ pc = "idle"
  /\ \E l \in Layouts, s \in BOOLEAN, v \in 1..NumVals :
       /\ (l = "mkldnn" => use_mkldnn)
       /\ input' = [layout |-> l, supported |-> s, val |-> Data(v)]
  /\ out' = NoVal
  /\ igrad' = NoVal
  /\ fwd' = NoFwd
  /\ out_at_call' = NoVal
  /\ UNCHANGED <<build, attrs, param, call, pc, call_locals, bwd_in, memo>>

\* A forward call of the node's operator.
InvokeForward ==
  /\ pc = "idle"
  /\ \E nin \in 0..MaxArity, nout \in 0..MaxArity, t \in BOOLEAN, d \in DevMasks :
       call' = [op |-> attrs.op, nin |-> nin, nout |-> nout, is_train |-> t,
                dev_mask |-> d]
  /\ pc' = "infer"
  /\ out_at_call' = out
  /\ UNCHANGED <<build, attrs, param, input, out, igrad, fwd, call_locals,
                 bwd_in, memo>>

\* The backward call linked to the last completed forward call: the gradient
\* node made by the forward operator's FGradient.
InvokeBackward ==
  /\ pc = "idle"
  /\ fwd # NoFwd
  /\ LET reg == Registry(attrs.op)
     IN  /\ call' = [op |-> reg.grad_op, nin |-> 2, nout |-> 1,
                     is_train |-> TRUE, dev_mask |-> "cpu"]
         /\ bwd_in' = GradInputs(reg.grad_use, OGrad, input.val, out)
  /\ pc' = "infer"
  /\ out_at_call' = igrad
  /\ UNCHANGED <<build, attrs, param, input, out, igrad, fwd, call_locals, memo>>

(***************************************************************************)
(* Storage-type inference and the choice of the compute entry point.       *)
(***************************************************************************)
\* A storage-type inference that checks the input count only.
SoftmaxStorageType_NoOutCheck ==
  /\ pc = "infer"
  /\ Registry(call.op).infer_storage
  /\ IF call.nin # 1
       THEN /\ pc' = "error"
            /\ err' = "ArityError"
            /\ UNCHANGED dispatch_mode
       ELSE /\ dispatch_mode' = IF use_mkldnn /\ call.dev_mask = "cpu"
                                  THEN "kFComputeEx" ELSE "kFCompute"
            /\ pc' = "dispatch"
            /\ UNCHANGED err
  /\ UNCHANGED <<build, attrs, param, input, out, igrad, fwd, call, path,
                 queried, writers, in_buf, kernel_read, ref_ran,
                 backend_failed, out_at_call, bwd_in, memo>>

\* SoftmaxStorageType: both CHECK_EQ, then wanted_mode (kFComputeEx on the CPU
\* of an MKLDNN build, kFCompute otherwise) assigned through
\* storage_type_assign.
SoftmaxStorageType ==
  /\ pc = "infer"
  /\ Registry(call.op).infer_storage
  /\ IF call.nin # 1 \/ call.nout # 1
       THEN /\ pc' = "error"
            /\ err' = "ArityError"
            /\ UNCHANGED dispatch_mode
       ELSE /\ dispatch_mode' = IF use_mkldnn /\ call.dev_mask = "cpu"
                                  THEN "kFComputeEx" ELSE "kFCompute"
            /\ pc' = "dispatch"
            /\ UNCHANGED err
  /\ UNCHANGED <<build, attrs, param, input, out, igrad, fwd, call, path,
                 queried, writers, in_buf, kernel_read, ref_ran,
                 backend_failed, out_at_call, bwd_in, memo>>

\* An operator registered without FInferStorageType: its registered arity is
\* enforced, and its only compute entry point is FCompute.
RegisteredArity ==
  /\ pc = "infer"
  /\ ~Registry(call.op).infer_storage
  /\ IF \/ call.nin # Registry(call.op).num_inputs
        \/ call.nout # Registry(call.op).num_outputs
       THEN /\ pc' = "error"
            /\ err' = "ArityError"
            /\ UNCHANGED dispatch_mode
       ELSE /\ dispatch_mode' = "kFCompute"
            /\ pc' = "dispatch"
            /\ UNCHANGED err
  /\ UNCHANGED <<build, attrs, param, input, out, igrad, fwd, call, path,
                 queried, writers, in_buf, kernel_read, ref_ran,
                 backend_failed, out_at_call, bwd_in, memo>>

\* The executor calls FComputeEx<cpu> when the dispatch mode asks for it and
\* the operator registers one, FCompute otherwise.
Dispatch ==
  /\ pc = "dispatch"
  /\ pc' = IF dispatch_mode = "kFComputeEx" /\ Registry(call.op).fcompute_ex
             THEN "ex_cond" ELSE "fcompute"
  /\ UNCHANGED <<build, attrs, param, input, out, igrad, fwd, call,
                 call_locals, out_at_call, bwd_in, memo>>

\* FCompute<cpu>: the generic kernel, on the default-layout blobs the executor
\* hands it.
FCompute ==
  /\ pc = "fcompute"
  /\ path' = "Generic"
  /\ writers' = writers \cup {"Generic"}
  /\ IF call.op \in FwdOps
       THEN /\ out' = SoftmaxCompute(Registry(call.op).fcompute, input.val,
                                     param.axis)
            /\ UNCHANGED igrad
       ELSE /\ igrad' = SoftmaxGradCompute(Registry(call.op).fcompute, bwd_in,
                                           param.axis)
            /\ UNCHANGED out
  /\ pc' = "done"
  /\ UNCHANGED <<build, attrs, param, input, fwd, call, dispatch_mode, queried,
                 in_buf, kernel_read, ref_ran, err, backend_failed,
                 out_at_call, bwd_in, memo>>

(***************************************************************************)
(* SoftmaxComputeExCPU.                                                    *)
(***************************************************************************)
\* The `if`: the condition is evaluated and the branch taken.  memo may keep
\* this decision (fresh until the call returns) to compare later ones with.
SoftmaxComputeExCPU_Cond ==
  /\ pc = "ex_cond"
  /\ LET c == EvalAnd(CondOperands, input, call.is_train, param.axis)
         dec == IF c.value THEN "Accelerated" ELSE "Generic"
     IN  /\ queried' = c.evaluated
         /\ path' = dec
         /\ pc' = IF c.value THEN "ex_mkldnn" ELSE "fb_convert"
         /\ \E keep \in BOOLEAN :
              memo' = IF keep
                        THEN [key |-> DecisionKey, dec |-> dec, fresh |-> TRUE]
                        ELSE memo
  /\ UNCHANGED <<build, attrs, param, input, out, igrad, fwd, call,
                 dispatch_mode, writers, in_buf, kernel_read, ref_ran, err,
                 backend_failed, out_at_call, bwd_in>>

\* The value MKLDNNSoftmaxForward writes: the softmax of the input along axis.
MKLDNNSoftmaxForward(in, axis) ==
  [kernel |-> "softmax_fwd", of |-> in.kernel, x |-> in.x, axis |-> axis]

\* A branch that catches a backend failure and computes the call generically.
SoftmaxComputeExCPU_MKLDNN_CatchAndFallBack ==
  /\ pc = "ex_mkldnn"
  /\ \E ok \in BOOLEAN :
       IF ok
         THEN /\ out' = MKLDNNSoftmaxForward(input.val, param.axis)
              /\ writers' = writers \cup {"Accelerated"}
              /\ pc' = "ex_opcheck"
              /\ UNCHANGED <<err, backend_failed>>
         ELSE /\ backend_failed' = TRUE
              /\ pc' = "fb_convert"
              /\ UNCHANGED <<out, writers, err>>
  /\ UNCHANGED <<build, attrs, param, input, igrad, fwd, call, dispatch_mode,
                 path, queried, in_buf, kernel_read, ref_ran, out_at_call,
                 bwd_in, memo>>

\* The accelerated branch: MKLDNNSoftmaxForward either writes outputs[0] or
\* raises; nothing in the branch catches what it raises.
SoftmaxComputeExCPU_MKLDNN ==
  /\ pc = "ex_mkldnn"
  /\ \E ok \in BOOLEAN :
       IF ok
         THEN /\ out' = MKLDNNSoftmaxForward(input.val, param.axis)
              /\ writers' = writers \cup {"Accelerated"}
              /\ pc' = "ex_opcheck"
              /\ UNCHANGED <<err, backend_failed>>
         ELSE /\ backend_failed' = TRUE
              /\ err' = "BackendFailure"
              /\ pc' = "error"
              /\ UNCHANGED <<out, writers>>
  /\ UNCHANGED <<build, attrs, param, input, igrad, fwd, call, dispatch_mode,
                 path, queried, in_buf, kernel_read, ref_ran, out_at_call,
                 bwd_in, memo>>

\* An accelerated branch that does not return and runs on into the fallback.
SoftmaxComputeExCPU_OpCheck_NoReturn ==
  /\ pc = "ex_opcheck"
  /\ ref_ran' = mkldnn_debug
  /\ pc' = "fb_convert"
  /\ UNCHANGED <<build, attrs, param, input, out, igrad, fwd, call,
                 dispatch_mode, path, queried, writers, in_buf, kernel_read,
                 err, backend_failed, out_at_call, bwd_in, memo>>

\* MKLDNN_OPCHECK_RUN and the `return`: a debug build runs the generic kernel
\* on private copies to compare; outputs[0] is not written again.
SoftmaxComputeExCPU_OpCheck ==
  /\ pc = "ex_opcheck"
  /\ ref_ran' = mkldnn_debug
  /\ pc' = "done"
  /\ UNCHANGED <<build, attrs, param, input, out, igrad, fwd, call,
                 dispatch_mode, path, queried, writers, in_buf, kernel_read,
                 err, backend_failed, out_at_call, bwd_in, memo>>

(***************************************************************************)
(* FallBackCompute(SoftmaxCompute<cpu, softmax_fwd>, ...).                 *)
(***************************************************************************)
\* An input already in the default layout is used as it is.
FallBackCompute_UseDefault ==
  /\ pc = "fb_convert"
  /\ input.layout = "default"
  /\ pc' = "fb_kernel"
  /\ UNCHANGED <<build, attrs, param, input, out, igrad, fwd, call,
                 call_locals, out_at_call, bwd_in, memo>>

\* An input in the accelerated layout is copied, element by element, into a
\* default-layout buffer; the kernel is reached when the copy is complete.
FallBackCompute_Reorder ==
  /\ pc = "fb_convert"
  /\ input.layout = "mkldnn"
  /\ Len(in_buf) < NumElems
  /\ in_buf' = Append(in_buf, input.val.x[Len(in_buf) + 1])
  /\ pc' = IF Len(in_buf) + 1 = NumElems THEN "fb_kernel" ELSE "fb_convert"
  /\ UNCHANGED <<build, attrs, param, input, out, igrad, fwd, call,
                 dispatch_mode, path, queried, writers, kernel_read, ref_ran,
                 err, backend_failed, out_at_call, bwd_in, memo>>

\* fn(attrs, ctx, in_blobs, req, out_blobs): the generic kernel reads the
\* blob chosen for inputs[0] and writes outputs[0].
FallBackCompute_Kernel ==
  /\ pc = "fb_kernel"
  /\ LET converted == input.layout # "default"
         blob == IF converted THEN [input.val EXCEPT !.x = in_buf]
                 ELSE input.val
     IN  /\ kernel_read' = [src |-> IF converted THEN "in_buf" ELSE "input",
                            len |-> Len(blob.x), layout |-> "default"]
         /\ out' = SoftmaxCompute("softmax_fwd", blob, param.axis)
  /\ writers' = writers \cup {"Generic"}
  /\ pc' = "done"
  /\ UNCHANGED <<build, attrs, param, input, igrad, fwd, call, dispatch_mode,
                 path, queried, in_buf, ref_ran, err, backend_failed,
                 out_at_call, bwd_in, memo>>

(***************************************************************************)
(* The call returns: normally, or with its error raised to the caller.     *)
(***************************************************************************)
Return ==
  /\ pc \in {"done", "error"}
  /\ pc' = "idle"
  /\ fwd' = IF call.op \in FwdOps
              THEN (IF pc = "done" THEN [y |-> out, path |-> path] ELSE NoFwd)
              ELSE fwd
  /\ call' = NoCall
  /\ dispatch_mode' = "kUndefined"
  /\ path' = "none"
  /\ queried' = {}
  /\ writers' = {}
  /\ in_buf' = <<>>
  /\ kernel_read' = NoRead
  /\ ref_ran' = FALSE
  /\ err' = "none"
  /\ backend_failed' = FALSE
  /\ out_at_call' = out
  /\ bwd_in' = <<>>
  /\ memo' = [memo EXCEPT !.fresh = FALSE]
  /\ UNCHANGED <<build, attrs, param, input, out, igrad>>

Next ==
  \/ Construct
  \/ BindInput
  \/ InvokeForward
  \/ InvokeBackward
  \/ SoftmaxStorageType
  \/ RegisteredArity
  \/ Dispatch
  \/ FCompute
  \/ SoftmaxComputeExCPU_Cond
  \/ SoftmaxComputeExCPU_MKLDNN
  \/ SoftmaxComputeExCPU_OpCheck
  \/ FallBackCompute_UseDefault
  \/ FallBackCompute_Reorder
  \/ FallBackCompute_Kernel
  \/ Return

Spec == Init /\ [][Next]_vars

(***************************************************************************)
(* Properties.                                                             *)
(***************************************************************************)
\* The call in progress has passed the `if` of SoftmaxComputeExCPU.
PassedIf == dispatch_mode = "kFComputeEx" /\ path # "none"

ExStates == {"ex_cond", "ex_mkldnn", "ex_opcheck", "fb_convert", "fb_kernel"}

AcceleratedApplies == input.supported /\ ~call.is_train /\ param.axis >= 0

\* C1: a softmax forward call that reaches the dispatcher is routed to the
\* accelerated backend exactly when the layout is supported, the call is not
\* a training call and the configured axis is non-negative, and to the
\* generic kernel otherwise; the result of a completed call was written by
\* exactly one path, the one it was routed to.
C1_RouteIffAllThree ==
  /\ PassedIf =>
       /\ path \in {"Accelerated", "Generic"}
       /\ (path = "Accelerated") <=> AcceleratedApplies
       /\ writers \subseteq {path}
  /\ (call.op = "softmax" /\ pc = "done") =>
       (Cardinality(writers) = 1 /\ writers = {path})

C1_Witness ==
  /\ PassedIf
  /\ pc = "done"
  /\ AcceleratedApplies
  /\ path = "Accelerated"
  /\ writers = {"Accelerated"}

C3_QueryOnlyInference ==
  (call.op \in FwdOps /\ (call.is_train \/ param.axis < 0))
    => "SupportMKLDNN" \notin queried

\* C3, amended: the capability query is the first operand of the dispatch
\* condition, so it is invoked in every forward call that reaches the
\* dispatcher, whatever is_training and the axis sign are, and in no other
\* call; the execution mode is read only after the query answered yes, and
\* the axis only after that in inference mode.
C3_QueryFirst ==
  /\ PassedIf => "SupportMKLDNN" \in queried
  /\ ~PassedIf => queried = {}
  /\ "not_is_train" \in queried => input.supported
  /\ "axis_nonneg" \in queried => (input.supported /\ ~call.is_train)

C3_Witness ==
  /\ PassedIf
  /\ call.is_train
  /\ param.axis < 0
  /\ queried = {"SupportMKLDNN"}

C6_FailurePropagates ==
  backend_failed =>
    /\ pc = "error"
    /\ err = "BackendFailure"
    /\ path = "Accelerated"
    /\ "Generic" \notin writers
    /\ kernel_read = NoRead
    /\ in_buf = <<>>

C6_Witness ==
  /\ backend_failed
  /\ pc = "error"
  /\ err = "BackendFailure"

BadArity == call.op \in FwdOps /\ (call.nin # 1 \/ call.nout # 1)

\* C7: a forward call that does not supply exactly one input and one output
\* ends with an arity error before anything is computed: no kernel runs,
\* nothing is converted, and the output view keeps its content.
C7_ArityRejected ==
  (BadArity /\ pc # "infer") =>
    /\ pc = "error"
    /\ err = "ArityError"
    /\ path = "none"
    /\ queried = {}
    /\ writers = {}
    /\ in_buf = <<>>
    /\ kernel_read = NoRead
    /\ ~ref_ran
    /\ out = out_at_call

C7_Witness ==
  /\ BadArity
  /\ call.op = "softmax"
  /\ call.nin = 1
  /\ pc = "error"
  /\ err = "ArityError"
  /\ out # NoVal

DecisionReproducible ==
  (PassedIf /\ memo.key = DecisionKey) => memo.dec = path

DecisionStepReadOnly ==
  pc = "ex_cond" =>
    /\ param' = param
    /\ input' = input
    /\ call' = call
    /\ attrs' = attrs
    /\ build' = build
    /\ fwd' = fwd

\* C8: a decision equals every earlier decision made for the same
\* (configured axis, execution mode, layout support), whatever calls happened
\* in between, and the step that decides changes nothing a decision reads.
C8_DecisionDeterministic ==
  []DecisionReproducible /\ [][DecisionStepReadOnly]_vars

C8_Witness ==
  /\ PassedIf
  /\ pc = "done"
  /\ ~memo.fresh
  /\ memo.key = DecisionKey
  /\ memo.dec = path
  /\ fwd # NoFwd
  /\ fwd.path # path

\* C9: the backward call of softmax and of log_softmax gets the output
\* gradient and, as its second input, the value the forward call wrote to its
\* output, not the forward input.
C9_BackwardUsesOutput ==
  call.op \in BwdOps =>
    /\ call.op = Registry(attrs.op).grad_op
    /\ bwd_in = <<OGrad, fwd.y>>
    /\ fwd.y = out
    /\ fwd.y.kernel = Registry(attrs.op).fcompute
    /\ bwd_in[2] # input.val
    /\ (pc = "done" => igrad.of = fwd.y.kernel)

C9_Witness ==
  /\ call.op = "_backward_log_softmax"
  /\ pc = "done"
  /\ bwd_in[2] = fwd.y
  /\ igrad.of = "log_softmax_fwd"

\* C10: only softmax forward ever enters the dispatcher or is written by the
\* accelerated backend; log_softmax and both backward operators are computed
\* by the generic kernel alone.
C10_OnlySoftmaxAccelerated ==
  /\ (pc \in ExStates \/ PassedIf \/ "Accelerated" \in writers
        \/ path = "Accelerated") => call.op = "softmax"
  /\ (call.op \in (FwdOps \cup BwdOps) \ {"softmax"} /\ pc = "done") =>
       (path = "Generic" /\ writers = {"Generic"} /\ queried = {})

C10_Witness ==
  /\ call.op = "_backward_softmax"
  /\ pc = "done"
  /\ fwd.path = "Accelerated"
  /\ path = "Generic"
  /\ writers = {"Generic"}

====
